---------------------------- MODULE Spec2Model ----------------------------
(***************************************************************************)
(* Reorg monitor of src/src/monitor_reorg.js (createMonitor): the block    *)
(* cache, the watermarks, the chain-identity probe and the tick loop, run  *)
(* against an unreliable JSON-RPC node whose chain can change at any time. *)
(*                                                                         *)
(* One step of a tick is one resumption of the async function: the result  *)
(* of the awaited RPC call arrives and the synchronous code up to the next *)
(* await (or to the end of the tick) runs.                                 *)
(***************************************************************************)
EXTENDS Integers, Sequences, FiniteSets, TLC

(* ------------------------------ bounds -------------------------------- *)
\* highest block height the node ever serves
MaxHeight == 2
\* block hashes are the opaque identifiers 1..NumHashes
NumHashes == 2
\* chain ids are 1..NumChainIds
NumChainIds == 2
\* the injected clock now() returns values in 0..MaxTime
MaxTime == 2
\* constructor options of createMonitor, scaled down
recheckDepth == 2
cacheDepth == 2
chainMetadataPollMs == 1
\* transaction-diff inputs: hashes 1..NumTx, lists of at most MaxTxLen
NumTx == 3
MaxTxLen == 3
\* alert POSTs awaiting the sink's response are counted up to MaxPosts
MaxPosts == 2
\* each hourly counter is followed up to MaxCount
MaxCount == 2
\* counters of an hour whose threat assessment is examined
MaxReorgs == 6
MaxReplaced == 11
\* depths that createMonitor may be given, and tips a tick may then be given
MaxDepth == 4
MaxConfigTip == 5

(* ----------------------------- constants ------------------------------ *)
\* JavaScript null of lastChainId / lastGenesisHash
Null == 0

Heights == 0..MaxHeight
Hashes == 1..NumHashes
ChainIds == 1..NumChainIds
TickIds == {1, 2}
\* tick() invocations that may be in flight: the awaited, sequential use
SeqTicks == {1}

\* an error message is a sequence of text fragments
BlockNotFound == "Block not found"
ErrorMessages == { <<BlockNotFound>>, <<"boom">>, <<"RPC failed: ", BlockNotFound>> }

\* String.prototype.includes on a message
Includes(message, fragment) == \E i \in 1..Len(message) : message[i] = fragment

Max(a, b) == IF a > b THEN a ELSE b

Range(s) == { s[i] : i \in 1..Len(s) }

(* ------------------ the node: blocks served over RPC ------------------ *)
\* A block is identified by its hash; the rest of its content is a
\* function of the hash (hashes are content hashes).
ParentHashOf(hash) == IF hash = 1 THEN 1 ELSE hash - 1
StateRootOf(hash) == hash + 10
TxHashesOf(hash) == << hash, hash + 1, hash >>

\* the block as returned by client.getBlock
BlockOf(height, hash) ==
  [ number |-> height, hash |-> hash, parentHash |-> ParentHashOf(hash),
    stateRoot |-> StateRootOf(hash), transactions |-> TxHashesOf(hash) ]

VARIABLES
  chain,                \* node: chain[k+1] is the hash of the block at height k
  blockCache,           \* Map height -> {hash, parentHash, stateRoot, transactions}
  maxObservedHeight,
  lastProcessedHeight,
  lastChainId,
  lastGenesisHash,
  lastMetadataCheckMs,
  pc,                   \* per tick() invocation: the await it is suspended at
  latestHeight,         \* per tick() invocation: local latestHeight
  h,                    \* per tick() invocation: loop variable h
  events,               \* logJson calls of the last step, in order
  alerts,               \* sendAlert calls of the last step, in order
  step,                 \* the RPC result that the last step consumed
  audit,                \* history of the running tick: no error and no change
                        \* of the chain so far (stable), begun on a fresh
                        \* monitor (fresh) or right after a tick that ran so
                        \* (settled), heights due for recheck
  txOld, txNew, txDiff, \* inputs and result of the transaction diff
  sink,                 \* the alert sink: "none" when no alertWebhookUrl is set
  posts,                \* fetch(alertWebhookUrl) calls that have not settled
  sideLog,              \* console.error calls of the last step
  hourlyStats,          \* mainnet variant: the counters of the hourly report
  pendingReport,        \* mainnet variant: the report whose sendAlert is awaited
  highestTip,           \* history: the highest tip height that a tick was given
                        \* since start or since the last CHAIN_REWIND, -1: none
  config,               \* the options createMonitor was called with, and the
                        \* recheck range and prune floor they give for a tip
  lastReceived          \* history: per cached height, the hash of the last
                        \* BLOCK_RECEIVED event logged for it

vars == << chain, blockCache, maxObservedHeight, lastProcessedHeight,
           lastChainId, lastGenesisHash, lastMetadataCheckMs,
           pc, latestHeight, h, events, alerts, step, audit,
           txOld, txNew, txDiff, sink, posts, sideLog, hourlyStats,
           pendingReport, highestTip, config, lastReceived >>

monitorVars == << blockCache, maxObservedHeight, lastProcessedHeight,
                  lastChainId, lastGenesisHash, lastMetadataCheckMs >>
txVars == << txOld, txNew, txDiff >>
sinkVars == << sink, posts, sideLog >>

\* how the configured sink treats a POST: there is none, it answers, the
\* request fails, or it never answers
Sinks == { "none", "ok", "fails", "hangs" }

Tip == Len(chain) - 1
HashAt(k) == chain[k + 1]

Chains == UNION { [1..n -> Hashes] : n \in 1..(MaxHeight + 1) }

\* hourlyStats with every counter at 0
NoStats == [ startTime |-> 0, blocksProcessed |-> 0, reorgsDetected |-> 0,
             blocksReplaced |-> 0, chainRewinds |-> 0 ]

\* the last step: which tick() invocation was resumed (tick), on which RPC
\* call (op, height), with which result (ok, error, chainId, tip), whether it
\* ran the prune phase (pruned), and what the monitor held when it resumed:
\* the hashes cached at `height` and `height - 1` (cachedHash, cachedParent)
\* and the recorded chain identity (oldChainId, oldGenesisHash), Null: none;
\* the watermarks and the cache it held before the step (oldMaxObserved,
\* oldLastProcessed, oldCache); for a step of generateHourlyReport, the
\* counters it found (oldStats) and the counters in the report that the step
\* emitted or finished (reported); for a step that took the tip, the highest
\* tip given to a tick before (oldHighestTip); for a processBlock whose
\* fetch was rejected, whether the error reached the caller (thrown) and the
\* counters before the call (oldStats); for the entry of a tick, the time it
\* read (nowMs) and lastMetadataCheckMs before it (oldMetadataCheckMs)
NoStep == [ tick |-> 0, op |-> "none", height |-> -1, ok |-> TRUE,
            error |-> << >>, chainId |-> Null, tip |-> -1, pruned |-> FALSE,
            cachedHash |-> Null, cachedParent |-> Null,
            oldChainId |-> Null, oldGenesisHash |-> Null,
            oldMaxObserved |-> 0, oldLastProcessed |-> -1, oldCache |-> << >>,
            oldStats |-> NoStats, reported |-> NoStats, oldHighestTip |-> -1,
            thrown |-> FALSE, nowMs |-> -1, oldMetadataCheckMs |-> -1,
            oldReceived |-> << >> ]

\* NoStep with what the monitor holds now
Before == [ NoStep EXCEPT !.oldMaxObserved = maxObservedHeight,
                          !.oldLastProcessed = lastProcessedHeight,
                          !.oldCache = blockCache,
                          !.oldReceived = lastReceived ]
NoAudit == [ stable |-> FALSE, fresh |-> FALSE, due |-> {}, replaced |-> {},
             settled |-> FALSE ]

\* the monitor that the tick actions run: created with a client and the
\* two depths; no recheck range examined
DefaultConfig == [ client |-> TRUE, recheckDepth |-> recheckDepth,
                   cacheDepth |-> cacheDepth, status |-> "created",
                   latest |-> -1, startHeight |-> -1, minHeightToKeep |-> -1 ]

(* --------------------------- pure helpers ----------------------------- *)
\* cached.transactions.filter(tx => !txHashSet.has(tx))
TxDroppedSwapped(cachedTx, txHashes) ==
  SelectSeq(txHashes, LAMBDA tx : tx \notin Range(cachedTx))
TxDropped(cachedTx, txHashes) ==
  SelectSeq(cachedTx, LAMBDA tx : tx \notin Range(txHashes))

\* txHashes.filter(tx => !cachedTxHashSet.has(tx))
TxAdded(cachedTx, txHashes) ==
  SelectSeq(txHashes, LAMBDA tx : tx \notin Range(cachedTx))

TxDiffOf(cachedTx, txHashes) ==
  [ dropped |-> TxDropped(cachedTx, txHashes),
    added |-> TxAdded(cachedTx, txHashes) ]

(* ----------------------------- events --------------------------------- *)
BlockReplacedEvent(cached, block) ==
  [ type |-> "BLOCK_REPLACED", height |-> block.number,
    old_hash |-> cached.hash, new_hash |-> block.hash,
    old_state_root |-> cached.stateRoot, new_state_root |-> block.stateRoot,
    tx_diff |-> TxDiffOf(cached.transactions, block.transactions),
    severity |-> "CRITICAL" ]

ParentMismatchEvent(parent, block) ==
  [ type |-> "PARENT_HASH_MISMATCH_DETECTED", at_height |-> block.number,
    expected_parent |-> parent.hash, actual_parent |-> block.parentHash,
    severity |-> "CRITICAL" ]

BlockReceivedEvent(block) ==
  [ type |-> "BLOCK_RECEIVED", height |-> block.number, hash |-> block.hash,
    parent_hash |-> block.parentHash, state_root |-> block.stateRoot,
    tx_count |-> Len(block.transactions), transactions |-> block.transactions ]

ChainRewindEvent(from, to) ==
  [ type |-> "CHAIN_REWIND", from_height |-> from, to_height |-> to,
    severity |-> "CRITICAL" ]

ChainIdChangedEvent(old, new) ==
  [ type |-> "CHAIN_ID_CHANGED", old_chain_id |-> old, new_chain_id |-> new,
    severity |-> "CRITICAL" ]

GenesisChangedEvent(old, new) ==
  [ type |-> "GENESIS_CHANGED", old_genesis_hash |-> old,
    new_genesis_hash |-> new, severity |-> "CRITICAL" ]

\* logJson("RPC_ERROR", { message: `Failed to process block ${h}`, error })
RpcErrorAt(text, height, error) ==
  [ type |-> "RPC_ERROR", message |-> [ text |-> text, height |-> height ],
    error |-> error ]

\* logJson("RPC_ERROR", { error: message }) of the outer catch
RpcErrorOuter(error) == [ type |-> "RPC_ERROR", error |-> error ]

\* the sendAlert calls that accompany the events of tick and processBlock:
\* every event these two log with severity CRITICAL is also passed to sendAlert
AlertsOf(evs) ==
  LET crit == SelectSeq(evs, LAMBDA e : e.type # "RPC_ERROR" /\ e.type # "BLOCK_RECEIVED")
  IN  [ i \in 1..Len(crit) |-> crit[i].type ]

(* --------------------------- processBlock ----------------------------- *)
\* rule 1: same height, different hash
ReplacedEventsNoHashTest(cache, block) ==
  IF block.number \in DOMAIN cache
    THEN << BlockReplacedEvent(cache[block.number], block) >>
    ELSE << >>
ReplacedEvents(cache, block) ==
  IF block.number \in DOMAIN cache /\ cache[block.number].hash # block.hash
    THEN << BlockReplacedEvent(cache[block.number], block) >>
    ELSE << >>

\* rule 2: the cached block at height - 1 is not the parent
MismatchEventsOwnParent(cache, block) ==
  IF (block.number - 1) \in DOMAIN cache
       /\ block.parentHash # cache[block.number - 1].parentHash
    THEN << ParentMismatchEvent(cache[block.number - 1], block) >>
    ELSE << >>
MismatchEvents(cache, block) ==
  IF (block.number - 1) \in DOMAIN cache
       /\ block.parentHash # cache[block.number - 1].hash
    THEN << ParentMismatchEvent(cache[block.number - 1], block) >>
    ELSE << >>

\* rule 3: new or changed entry
IsNewOrChanged(cache, block) ==
  block.number \notin DOMAIN cache \/ cache[block.number].hash # block.hash

ReceivedEventsAlways(cache, block) == << BlockReceivedEvent(block) >>
ReceivedEvents(cache, block) ==
  IF IsNewOrChanged(cache, block) THEN << BlockReceivedEvent(block) >> ELSE << >>

Fingerprint(block) ==
  [ hash |-> block.hash, parentHash |-> block.parentHash,
    stateRoot |-> block.stateRoot, transactions |-> block.transactions ]

\* blockCache.set(height, {...})
CacheSet(cache, height, entry) ==
  [ k \in DOMAIN cache \cup {height} |-> IF k = height THEN entry ELSE cache[k] ]

CacheAfterKeepsFirst(cache, block) ==
  IF block.number \in DOMAIN cache
    THEN cache
    ELSE CacheSet(cache, block.number, Fingerprint(block))
CacheAfter(cache, block) ==
  IF IsNewOrChanged(cache, block)
    THEN CacheSet(cache, block.number, Fingerprint(block))
    ELSE cache

\* the logJson calls of processBlock, in program order: rule 1, rule 2 (both
\* read the cache before the call writes it), rule 3
ProcessBlockEventsReceivedFirst(cache, block) ==
  ReceivedEvents(cache, block) \o ReplacedEvents(cache, block)
    \o MismatchEvents(cache, block)
ProcessBlockEvents(cache, block) ==
  ReplacedEvents(cache, block) \o MismatchEvents(cache, block)
    \o ReceivedEvents(cache, block)

\* processBlock once its getBlock has returned `block`: the events it logs,
\* the cache and the watermark it leaves
ProcessBlockLowersWatermark(cache, maxObserved, block) ==
  [ events |-> ProcessBlockEvents(cache, block),
    cache |-> CacheAfter(cache, block),
    maxObserved |-> block.number ]
ProcessBlock(cache, maxObserved, block) ==
  [ events |-> ProcessBlockEvents(cache, block),
    cache |-> CacheAfter(cache, block),
    maxObserved |-> IF block.number > maxObserved THEN block.number ELSE maxObserved ]

(* ------------------------------- tick --------------------------------- *)
\* Prune Cache: delete every height below the floor
PruneKeepsAll(cache, floor) == cache
PruneCache(cache, floor) ==
  [ k \in { x \in DOMAIN cache : x >= floor } |-> cache[k] ]

MinHeightToKeepOneMore(latest) == Max(0, latest - cacheDepth)
MinHeightToKeep(latest) == Max(0, latest - cacheDepth + 1)

RecheckStartShort(latest) == Max(0, latest - recheckDepth + 2)
RecheckStart(latest) == Max(0, latest - recheckDepth + 1)

\* the outer catch of tick
OuterCatchLogsAll(message) == << RpcErrorOuter(message) >>
OuterCatch(message) ==
  IF ~ Includes(message, BlockNotFound) THEN << RpcErrorOuter(message) >> ELSE << >>

\* rewind check on the fetched tip
IsRewindOrEqual(latest, maxObserved) == latest <= maxObserved
IsRewind(latest, maxObserved) == latest < maxObserved

\* the cache the rewind check leaves: the branch assigns the two watermarks
\* and never touches blockCache
RewindCheckClearsCache(cache, latest, maxObserved) ==
  IF IsRewind(latest, maxObserved) THEN << >> ELSE cache
RewindCheckCache(cache, latest, maxObserved) == cache

\* lastProcessedHeight as the rewind check leaves it
RewindCheckLastProcessedBelowTip(latest, lastProcessed, maxObserved) ==
  IF IsRewind(latest, maxObserved) THEN latest - 1 ELSE lastProcessed
RewindCheckLastProcessed(latest, lastProcessed, maxObserved) ==
  IF IsRewind(latest, maxObserved) THEN latest ELSE lastProcessed

\* identity probe once chain id and block 0 have both arrived
ChainIdEventsAlways(last, chainId) ==
  IF chainId # last THEN << ChainIdChangedEvent(last, chainId) >> ELSE << >>
ChainIdEvents(last, chainId) ==
  IF last # Null /\ chainId # last
    THEN << ChainIdChangedEvent(last, chainId) >> ELSE << >>

GenesisEvents(last, genesisHash) ==
  IF last # Null /\ genesisHash # last
    THEN << GenesisChangedEvent(last, genesisHash) >> ELSE << >>

\* where the tick goes when forward sync has ended (`lastProcessed` and
\* `cache` as forward sync left them): into the recheck loop, or, when the
\* loop body never runs, through prune to the end of the tick
AfterForwardDropsCache(latest, lastProcessed, cache) ==
  [ pc |-> "idle", h |-> 0, latest |-> 0, cache |-> << >>, pruned |-> TRUE ]
AfterForward(latest, lastProcessed, cache) ==
  IF RecheckStart(latest) <= lastProcessed
    THEN [ pc |-> "recheck", h |-> RecheckStart(latest), latest |-> latest,
           cache |-> cache, pruned |-> FALSE ]
    ELSE [ pc |-> "idle", h |-> 0, latest |-> 0,
           cache |-> PruneCache(cache, MinHeightToKeep(latest)), pruned |-> TRUE ]

\* where the tick goes after the recheck of height k
AfterRecheckEndsTick(latest, lastProcessed, cache, k) ==
  [ pc |-> "idle", h |-> 0, latest |-> 0,
    cache |-> PruneCache(cache, MinHeightToKeep(latest)), pruned |-> TRUE ]
AfterRecheck(latest, lastProcessed, cache, k) ==
  IF k + 1 <= lastProcessed
    THEN [ pc |-> "recheck", h |-> k + 1, latest |-> latest,
           cache |-> cache, pruned |-> FALSE ]
    ELSE [ pc |-> "idle", h |-> 0, latest |-> 0,
           cache |-> PruneCache(cache, MinHeightToKeep(latest)), pruned |-> TRUE ]

\* heights whose cached hash is stale although forward sync will not touch
\* them: non-tip, inside the recheck window, at or below lastProcessedHeight
CachedHashAt(cache, k) == IF k \in DOMAIN cache THEN cache[k].hash ELSE Null

DueHeights(latest, lastProcessed, cache) ==
  { k \in DOMAIN cache :
      /\ k < latest
      /\ k >= Max(0, latest - recheckDepth + 1)
      /\ k <= lastProcessed
      /\ k <= Tip
      /\ cache[k].hash # HashAt(k) }

GotoSkipsForward(t, next) ==
  /\ pc' = [pc EXCEPT ![t] = IF next.pc = "forward" THEN "recheck" ELSE next.pc]
  /\ h' = [h EXCEPT ![t] = next.h]
  /\ latestHeight' = [latestHeight EXCEPT ![t] = next.latest]
Goto(t, next) ==
  /\ pc' = [pc EXCEPT ![t] = next.pc]
  /\ h' = [h EXCEPT ![t] = next.h]
  /\ latestHeight' = [latestHeight EXCEPT ![t] = next.latest]

\* sendAlert up to its await: without a sink it returns at once, otherwise
\* it has called fetch; MaxPosts stands for MaxPosts or more pending calls
PostsAfter(pending, calls) ==
  IF sink = "none" THEN pending
  ELSE IF pending + calls > MaxPosts THEN MaxPosts ELSE pending + calls

\* logJson after an awaited sendAlert: nothing is logged unless the sink answers
EmitAfterAlert(evs) ==
  /\ events' = IF sink \in {"fails", "hangs"} /\ AlertsOf(evs) # << >> THEN << >> ELSE evs
  /\ alerts' = AlertsOf(evs)
  /\ posts' = PostsAfter(posts, Len(AlertsOf(evs)))
  /\ sideLog' = << >>
  /\ sink' = sink
\* history of the BLOCK_RECEIVED events of a step, kept for the heights that
\* the cache holds after it
Remember ==
  lastReceived' =
    [ k \in DOMAIN blockCache' |->
        LET got == { i \in 1..Len(events') : /\ events'[i].type = "BLOCK_RECEIVED"
                                            /\ events'[i].height = k }
        IN  IF got # {}
              THEN events'[CHOOSE i \in got : \A j \in got : j <= i].hash
              ELSE IF k \in DOMAIN lastReceived THEN lastReceived[k] ELSE Null ]

\* the logJson calls of a step, each CRITICAL one followed by sendAlert,
\* which is not awaited
Emit(evs) ==
  /\ events' = evs
  /\ alerts' = AlertsOf(evs)
  /\ posts' = PostsAfter(posts, Len(AlertsOf(evs)))
  /\ sideLog' = << >>
  /\ sink' = sink

\* tick() is called: it reads the clock, decides on the identity probe and
\* suspends at its first RPC call
TickEntryStampsLate(t) ==
  /\ pc[t] = "idle"
  /\ \E nowMs \in lastMetadataCheckMs..MaxTime :
       /\ pc' = [pc EXCEPT ![t] =
                   IF nowMs - lastMetadataCheckMs >= chainMetadataPollMs
                     THEN "probe" ELSE "tip"]
       /\ step' = [Before EXCEPT !.tick = t, !.op = "start", !.nowMs = nowMs,
                                 !.oldMetadataCheckMs = lastMetadataCheckMs]
  /\ Emit(<< >>)
  /\ audit' = [NoAudit EXCEPT !.stable = TRUE]
  /\ UNCHANGED << chain, monitorVars, lastReceived, latestHeight, h, txVars, config,
                  pendingReport, highestTip, hourlyStats >>
TickEntry(t) ==
  /\ pc[t] = "idle"
  /\ \E nowMs \in lastMetadataCheckMs..MaxTime :
       /\ IF nowMs - lastMetadataCheckMs >= chainMetadataPollMs
            THEN /\ lastMetadataCheckMs' = nowMs
                 /\ pc' = [pc EXCEPT ![t] = "probe"]
            ELSE /\ lastMetadataCheckMs' = lastMetadataCheckMs
                 /\ pc' = [pc EXCEPT ![t] = "tip"]
       /\ step' = [Before EXCEPT !.tick = t, !.op = "start", !.nowMs = nowMs,
                                 !.oldMetadataCheckMs = lastMetadataCheckMs]
  /\ Emit(<< >>)
  /\ audit' = [NoAudit EXCEPT !.stable = TRUE,
                              !.fresh = /\ blockCache = << >>
                                        /\ lastProcessedHeight = -1
                                        /\ maxObservedHeight = 0,
                              !.settled = /\ audit.stable
                                          /\ step.pruned
                                          /\ step.ok]
  /\ UNCHANGED << chain, blockCache, lastReceived, maxObservedHeight, lastProcessedHeight,
                  lastChainId, lastGenesisHash, latestHeight, h, txVars,
                  config, pendingReport, highestTip, hourlyStats >>

\* an awaited call of tick(): no other invocation is in flight
TickStart(t) ==
  /\ \A u \in TickIds : pc[u] = "idle"
  /\ TickEntry(t)

\* start(): the interval timer fires and calls tick() without awaiting the
\* invocations it started before; invocation slots are taken in order
IntervalTick(t) ==
  /\ \A u \in TickIds : u < t => pc[u] # "idle"
  /\ TickEntry(t)

\* Promise.all([getChainId(), getBlock(0)]) settles
ProbeDone(t) ==
  /\ pc[t] = "probe"
  /\ \/ \E chainId \in ChainIds :
          LET genesisHash == HashAt(0) IN
          /\ Emit(ChainIdEvents(lastChainId, chainId)
                    \o GenesisEvents(lastGenesisHash, genesisHash))
          /\ lastChainId' = chainId
          /\ lastGenesisHash' = genesisHash
          /\ pc' = [pc EXCEPT ![t] = "tip"]
          /\ step' = [Before EXCEPT !.tick = t, !.op = "probe", !.chainId = chainId,
                                    !.oldChainId = lastChainId,
                                    !.oldGenesisHash = lastGenesisHash]
          /\ audit' = audit
     \/ \E message \in ErrorMessages :
          /\ Emit(OuterCatch(message))
          /\ pc' = [pc EXCEPT ![t] = "idle"]
          /\ step' = [Before EXCEPT !.tick = t, !.op = "probe", !.ok = FALSE,
                                    !.error = message,
                                    !.oldChainId = lastChainId,
                                    !.oldGenesisHash = lastGenesisHash,
                                    !.oldMetadataCheckMs = lastMetadataCheckMs]
          /\ audit' = NoAudit
          /\ UNCHANGED << lastChainId, lastGenesisHash >>
  /\ UNCHANGED << chain, blockCache, lastReceived, maxObservedHeight, lastProcessedHeight,
                  lastMetadataCheckMs, latestHeight, h, txVars, config,
                  pendingReport, highestTip, hourlyStats >>

\* getBlock({ blockTag: 'latest' }) settles: rewind check, then the tick
\* suspends at the first processBlock of forward sync or of recheck
TipDone(t) ==
  /\ pc[t] = "tip"
  /\ \/ LET latest == Tip
            rewind == IsRewind(latest, maxObservedHeight)
            maxObs == IF rewind THEN latest ELSE maxObservedHeight
            lastProc == RewindCheckLastProcessed(latest, lastProcessedHeight,
                                                 maxObservedHeight)
            cache == RewindCheckCache(blockCache, latest, maxObservedHeight)
            next == IF latest > lastProc
                      THEN [ pc |-> "forward", h |-> lastProc + 1, latest |-> latest,
                             cache |-> cache, pruned |-> FALSE ]
                      ELSE AfterForward(latest, lastProc, cache)
        IN
          /\ Emit(IF rewind THEN << ChainRewindEvent(maxObservedHeight, latest) >>
                            ELSE << >>)
          /\ maxObservedHeight' = maxObs
          /\ lastProcessedHeight' = lastProc
          /\ blockCache' = next.cache
          /\ Remember
          /\ Goto(t, next)
          /\ highestTip' = IF rewind THEN latest ELSE Max(highestTip, latest)
          /\ step' = [Before EXCEPT !.tick = t, !.op = "latest", !.tip = latest,
                                    !.pruned = next.pruned,
                                    !.oldHighestTip = highestTip]
          /\ audit' = IF audit.stable
                        THEN [audit EXCEPT !.due =
                                DueHeights(latest, lastProcessedHeight, blockCache)]
                        ELSE NoAudit
     \/ \E message \in ErrorMessages :
          /\ Emit(OuterCatch(message))
          /\ pc' = [pc EXCEPT ![t] = "idle"]
          /\ step' = [Before EXCEPT !.tick = t, !.op = "latest", !.ok = FALSE,
                                    !.error = message]
          /\ audit' = NoAudit
          /\ UNCHANGED << blockCache, lastReceived, maxObservedHeight, lastProcessedHeight,
                          latestHeight, h, highestTip >>
  /\ UNCHANGED << chain, lastChainId, lastGenesisHash, lastMetadataCheckMs,
                  txVars, config, pendingReport, hourlyStats >>

\* the RPC errors a getBlock(k) can end in; a height above the tip is
\* never served
FetchOk(k) == k <= Tip

\* forward sync: processBlock(h) settles
ForwardDone(t) ==
  /\ pc[t] = "forward"
  /\ LET k == h[t]
         latest == latestHeight[t]
     IN
     \/ /\ FetchOk(k)
        /\ LET r == ProcessBlock(blockCache, maxObservedHeight, BlockOf(k, HashAt(k)))
               next == IF k + 1 <= latest
                         THEN [ pc |-> "forward", h |-> k + 1, latest |-> latest,
                                cache |-> r.cache, pruned |-> FALSE ]
                         ELSE AfterForward(latest, k, r.cache)
           IN
             /\ Emit(r.events)
             /\ maxObservedHeight' = r.maxObserved
             /\ lastProcessedHeight' = k
             /\ blockCache' = next.cache
             /\ Remember
             /\ Goto(t, next)
             /\ step' = [Before EXCEPT !.tick = t, !.op = "forward", !.height = k,
                                       !.tip = latest, !.pruned = next.pruned,
                                       !.cachedHash = CachedHashAt(blockCache, k),
                                       !.cachedParent = CachedHashAt(blockCache, k - 1)]
             /\ audit' = audit
     \/ \E message \in ErrorMessages :
          LET next == AfterForward(latest, lastProcessedHeight, blockCache) IN
          /\ Emit(<< RpcErrorAt("Failed to process block", k, message) >>)
          /\ blockCache' = next.cache
          /\ Remember
          /\ Goto(t, next)
          /\ step' = [Before EXCEPT !.tick = t, !.op = "forward", !.height = k,
                                    !.ok = FALSE, !.error = message,
                                    !.tip = latest, !.pruned = next.pruned,
                                    !.thrown = TRUE]
          /\ audit' = NoAudit
          /\ UNCHANGED << maxObservedHeight, lastProcessedHeight >>
  /\ UNCHANGED << chain, lastChainId, lastGenesisHash, lastMetadataCheckMs,
                  txVars, config, pendingReport, highestTip, hourlyStats >>

\* deep recheck: processBlock(h) settles; after the last height the cache
\* is pruned and the tick ends
RecheckDone(t) ==
  /\ pc[t] = "recheck"
  /\ LET k == h[t]
         latest == latestHeight[t]
     IN
     \/ /\ FetchOk(k)
        /\ LET r == ProcessBlock(blockCache, maxObservedHeight, BlockOf(k, HashAt(k)))
               next == AfterRecheck(latest, lastProcessedHeight, r.cache, k)
               replaced == \E i \in 1..Len(r.events) : r.events[i].type = "BLOCK_REPLACED"
           IN
             /\ Emit(r.events)
             /\ maxObservedHeight' = r.maxObserved
             /\ blockCache' = next.cache
             /\ Remember
             /\ Goto(t, next)
             /\ step' = [Before EXCEPT !.tick = t, !.op = "recheck", !.height = k,
                                       !.tip = latest, !.pruned = next.pruned,
                                       !.cachedHash = CachedHashAt(blockCache, k),
                                       !.cachedParent = CachedHashAt(blockCache, k - 1)]
             /\ audit' = IF audit.stable /\ replaced
                           THEN [audit EXCEPT !.replaced = @ \cup {k}]
                           ELSE audit
     \/ \E message \in ErrorMessages :
          LET next == AfterRecheck(latest, lastProcessedHeight, blockCache, k) IN
          /\ Emit(<< RpcErrorAt("Recheck failed for", k, message) >>)
          /\ blockCache' = next.cache
          /\ Remember
          /\ Goto(t, next)
          /\ step' = [Before EXCEPT !.tick = t, !.op = "recheck", !.height = k,
                                    !.ok = FALSE, !.error = message,
                                    !.tip = latest, !.pruned = next.pruned,
                                    !.thrown = TRUE]
          /\ audit' = NoAudit
          /\ UNCHANGED maxObservedHeight
  /\ UNCHANGED << chain, lastProcessedHeight, lastChainId, lastGenesisHash,
                  lastMetadataCheckMs, txVars, config, pendingReport,
                  highestTip, hourlyStats >>

(* ------------------------- the node's chain --------------------------- *)
EnvStep ==
  /\ Emit(<< >>)
  /\ step' = Before
  /\ audit' = NoAudit
  /\ UNCHANGED << monitorVars, lastReceived, pc, latestHeight, h, txVars, config,
                  pendingReport, highestTip, hourlyStats >>

\* a new block is appended
ChainExtend ==
  /\ Tip < MaxHeight
  /\ \E hash \in Hashes : chain' = Append(chain, hash)
  /\ EnvStep

\* the tip block is dropped
ChainRewind ==
  /\ Tip > 0
  /\ chain' = SubSeq(chain, 1, Len(chain) - 1)
  /\ EnvStep

\* the block at one height is replaced by another one
ChainReplace ==
  /\ \E k \in 0..Tip : \E hash \in Hashes \ {HashAt(k)} :
       chain' = [chain EXCEPT ![k + 1] = hash]
  /\ EnvStep

(* ----------------------------- behaviour ------------------------------ *)
InitWith(sinks) ==
  /\ chain \in Chains
  /\ blockCache = << >>
  /\ lastReceived = << >>
  /\ maxObservedHeight = 0
  /\ lastProcessedHeight = -1
  /\ lastChainId = Null
  /\ lastGenesisHash = Null
  /\ lastMetadataCheckMs = 0
  /\ pc = [t \in TickIds |-> "idle"]
  /\ latestHeight = [t \in TickIds |-> 0]
  /\ h = [t \in TickIds |-> 0]
  /\ events = << >>
  /\ alerts = << >>
  /\ step = NoStep
  /\ audit = NoAudit
  /\ txOld = << >>
  /\ txNew = << >>
  /\ txDiff = TxDiffOf(<< >>, << >>)
  /\ sink \in sinks
  /\ posts = 0
  /\ sideLog = << >>
  /\ hourlyStats = NoStats
  /\ pendingReport = << >>
  /\ highestTip = -1
  /\ config = DefaultConfig

\* createMonitor without alertWebhookUrl
Init == InitWith({"none"})

Next ==
  \/ \E t \in SeqTicks : TickStart(t)
  \/ \E t \in SeqTicks : ProbeDone(t)
  \/ \E t \in SeqTicks : TipDone(t)
  \/ \E t \in SeqTicks : ForwardDone(t)
  \/ \E t \in SeqTicks : RecheckDone(t)
  \/ ChainExtend
  \/ ChainRewind
  \/ ChainReplace

Spec == Init /\ [][Next]_vars

(* ------------------ ticks called by start()'s timer ------------------- *)
\* Up to two invocations in flight, against a node whose chain (any of
\* Chains) stays as it is while they run.
NextStart ==
  \/ \E t \in TickIds : IntervalTick(t)
  \/ \E t \in TickIds : ProbeDone(t)
  \/ \E t \in TickIds : TipDone(t)
  \/ \E t \in TickIds : ForwardDone(t)
  \/ \E t \in TickIds : RecheckDone(t)

SpecStart == Init /\ [][NextStart]_vars

\* Up to two invocations in flight against a node of heights 0..1 that
\* replaces blocks while they run.
InitInterleaved ==
  /\ Init
  /\ Tip <= 1

NextInterleaved ==
  \/ NextStart
  \/ ChainReplace

SpecInterleaved == InitInterleaved /\ [][NextInterleaved]_vars

(* ------------------------- the alert sink ----------------------------- *)
\* a pending fetch(alertWebhookUrl) settles inside sendAlert: a response is
\* dropped, a rejection is caught and written to console.error
AlertSettles ==
  /\ posts > 0
  /\ sink \in {"ok", "fails"}
  /\ posts' \in (IF posts = MaxPosts THEN {MaxPosts - 1, MaxPosts} ELSE {posts - 1})
  /\ sideLog' = IF sink = "fails" THEN << "Failed to send alert:" >> ELSE << >>
  /\ events' = << >>
  /\ alerts' = << >>
  /\ step' = [Before EXCEPT !.op = "alert", !.ok = (sink = "ok")]
  /\ audit' = audit
  /\ UNCHANGED << chain, monitorVars, lastReceived, pc, latestHeight, h, txVars, config,
                  pendingReport, highestTip, sink, hourlyStats >>

\* createMonitor with any sink, against a node that may replace its blocks
InitSink == InitWith(Sinks)

NextSink ==
  \/ \E t \in SeqTicks : TickStart(t)
  \/ \E t \in SeqTicks : ProbeDone(t)
  \/ \E t \in SeqTicks : TipDone(t)
  \/ \E t \in SeqTicks : ForwardDone(t)
  \/ \E t \in SeqTicks : RecheckDone(t)
  \/ AlertSettles
  \/ ChainReplace

SpecSink == InitSink /\ [][NextSink]_vars

(* ------ the Monad mainnet variant (src/src/get_telegram_chat_id.js) ----- *)
\* Its createMonitor keeps the same state plus hourlyStats; its tick skips
\* history on the first tip, its processBlock swallows fetch errors, and its
\* forward sync neither stops at an error nor advances height by height.

\* resetHourlyStats
ResetStats(nowMs) == [ NoStats EXCEPT !.startTime = nowMs ]

\* every counter is at most MaxCount
WithinCap(stats) ==
  /\ stats.blocksProcessed <= MaxCount
  /\ stats.reorgsDetected <= MaxCount
  /\ stats.blocksReplaced <= MaxCount
  /\ stats.chainRewinds <= MaxCount

\* the clock never reads less than a value it returned before
ClockFloor == Max(lastMetadataCheckMs, hourlyStats.startTime)

GasUsedOf(hash) == hash + 20
BaseFeeOf(hash) == hash + 30

ReorgDetectedEvent(parent, block) ==
  [ type |-> "REORG_DETECTED", at_height |-> block.number,
    expected_parent |-> parent.hash, actual_parent |-> block.parentHash,
    severity |-> "CRITICAL" ]

MainnetBlockReceivedEvent(block) ==
  [ type |-> "BLOCK_RECEIVED", height |-> block.number, hash |-> block.hash,
    parent_hash |-> block.parentHash, state_root |-> block.stateRoot,
    base_fee |-> BaseFeeOf(block.hash), gas_used |-> GasUsedOf(block.hash),
    tx_count |-> Len(block.transactions), transactions |-> block.transactions ]

SkipHistoryEvent(latest) ==
  [ type |-> "MONITOR_SKIP_HISTORY",
    message |-> "Skipping historical blocks to start from latest",
    skipped_to_height |-> latest ]

\* rule 2 of the variant's processBlock
MainnetMismatchEvents(cache, block) ==
  IF (block.number - 1) \in DOMAIN cache
       /\ block.parentHash # cache[block.number - 1].hash
    THEN << ReorgDetectedEvent(cache[block.number - 1], block) >>
    ELSE << >>

MainnetReceivedEvents(cache, block) ==
  IF IsNewOrChanged(cache, block)
    THEN << MainnetBlockReceivedEvent(block) >> ELSE << >>

\* the variant's processBlock once its getBlock has returned `block`
MainnetProcessBlockMissesReplaced(cache, maxObserved, stats, block) ==
  LET replaced == ReplacedEvents(cache, block)
      mismatch == MainnetMismatchEvents(cache, block)
  IN
  [ events |-> replaced \o mismatch \o MainnetReceivedEvents(cache, block),
    cache |-> CacheAfter(cache, block),
    maxObserved |-> IF block.number > maxObserved THEN block.number ELSE maxObserved,
    stats |-> [ stats EXCEPT !.blocksProcessed = @ + 1,
                             !.reorgsDetected = @ + Len(mismatch) ] ]
MainnetProcessBlock(cache, maxObserved, stats, block) ==
  LET replaced == ReplacedEvents(cache, block)
      mismatch == MainnetMismatchEvents(cache, block)
  IN
  [ events |-> replaced \o mismatch \o MainnetReceivedEvents(cache, block),
    cache |-> CacheAfter(cache, block),
    maxObserved |-> IF block.number > maxObserved THEN block.number ELSE maxObserved,
    stats |-> [ stats EXCEPT !.blocksProcessed = @ + 1,
                             !.blocksReplaced = @ + Len(replaced),
                             !.reorgsDetected = @ + Len(mismatch) ] ]

\* the variant calls sendAlert for these events only
MainnetAlertsOf(evs) ==
  LET crit == SelectSeq(evs, LAMBDA e :
                e.type \in {"BLOCK_REPLACED", "REORG_DETECTED", "CHAIN_REWIND"})
  IN  [ i \in 1..Len(crit) |-> crit[i].type ]

MainnetEmit(evs) ==
  /\ events' = evs
  /\ alerts' = MainnetAlertsOf(evs)
  /\ posts' = PostsAfter(posts, Len(MainnetAlertsOf(evs)))
  /\ sideLog' = << >>
  /\ sink' = sink

\* cold start on the fetched tip
IsColdStart(latest, lastProcessed) == lastProcessed = -1 /\ latest > 0

ColdStartEvents(latest, lastProcessed) ==
  IF IsColdStart(latest, lastProcessed) THEN << SkipHistoryEvent(latest) >> ELSE << >>

ColdStartKeepsLastProcessed(latest, lastProcessed) == lastProcessed
ColdStartLastProcessed(latest, lastProcessed) ==
  IF IsColdStart(latest, lastProcessed) THEN latest - 1 ELSE lastProcessed

\* where the variant's tick goes after processBlock(k) of forward sync
\* returned: the loop runs up to `latest` whatever processBlock returned
MainnetAfterForward(latest, k) ==
  IF k + 1 <= latest
    THEN [ pc |-> "forward", h |-> k + 1, latest |-> latest ]
    ELSE [ pc |-> "recheck", h |-> RecheckStart(latest), latest |-> latest ]

\* lastProcessedHeight after processBlock(k) of forward sync returned: it
\* is assigned once, behind the loop
MainnetForwardLastProcessed(latest, lastProcessed, k) ==
  IF k + 1 <= latest THEN lastProcessed ELSE latest

\* where the variant's tick goes after the recheck of height k: the loop
\* runs up to `latest`
MainnetAfterRecheck(latest, cache, k) ==
  IF k + 1 <= latest
    THEN [ pc |-> "recheck", h |-> k + 1, latest |-> latest,
           cache |-> cache, pruned |-> FALSE ]
    ELSE [ pc |-> "idle", h |-> 0, latest |-> 0,
           cache |-> PruneCache(cache, MinHeightToKeep(latest)), pruned |-> TRUE ]

\* Before with the counters the variant holds now
MainnetBefore == [ Before EXCEPT !.oldStats = hourlyStats ]

\* tick() is called
MainnetTickStart(t) ==
  /\ \A u \in TickIds : pc[u] = "idle"
  /\ \E nowMs \in ClockFloor..MaxTime :
       /\ IF nowMs - lastMetadataCheckMs >= chainMetadataPollMs
            THEN /\ lastMetadataCheckMs' = nowMs
                 /\ pc' = [pc EXCEPT ![t] = "probe"]
            ELSE /\ lastMetadataCheckMs' = lastMetadataCheckMs
                 /\ pc' = [pc EXCEPT ![t] = "tip"]
       /\ step' = [MainnetBefore EXCEPT
                     !.tick = t, !.op = "start", !.nowMs = nowMs,
                     !.oldMetadataCheckMs = lastMetadataCheckMs]
  /\ MainnetEmit(<< >>)
  /\ UNCHANGED << chain, blockCache, lastReceived, maxObservedHeight, lastProcessedHeight,
                  lastChainId, lastGenesisHash, latestHeight, h, audit,
                  txVars, config, pendingReport, highestTip, hourlyStats >>

\* Promise.all([getChainId(), getBlock(0)]) settles; identity changes are
\* logged and not alerted
MainnetProbeDone(t) ==
  /\ pc[t] = "probe"
  /\ \/ \E chainId \in ChainIds :
          LET genesisHash == HashAt(0) IN
          /\ events' = ChainIdEvents(lastChainId, chainId)
                         \o GenesisEvents(lastGenesisHash, genesisHash)
          /\ lastChainId' = chainId
          /\ lastGenesisHash' = genesisHash
          /\ pc' = [pc EXCEPT ![t] = "tip"]
          /\ step' = [MainnetBefore EXCEPT
                        !.tick = t, !.op = "probe", !.chainId = chainId,
                        !.oldChainId = lastChainId,
                        !.oldGenesisHash = lastGenesisHash]
     \/ \E message \in ErrorMessages :
          /\ events' = OuterCatch(message)
          /\ pc' = [pc EXCEPT ![t] = "idle"]
          /\ step' = [MainnetBefore EXCEPT
                        !.tick = t, !.op = "probe", !.ok = FALSE,
                        !.error = message]
          /\ UNCHANGED << lastChainId, lastGenesisHash >>
  /\ alerts' = << >>
  /\ sideLog' = << >>
  /\ UNCHANGED << chain, blockCache, lastReceived, maxObservedHeight, lastProcessedHeight,
                  lastMetadataCheckMs, latestHeight, h, audit, txVars, config,
                  pendingReport, highestTip, sink, posts, hourlyStats >>

\* getBlock({ blockTag: 'latest' }) settles: cold start, rewind check, then
\* the tick suspends at the first processBlock of forward sync or of recheck
MainnetTipDone(t) ==
  /\ pc[t] = "tip"
  /\ \/ LET latest == Tip
            cold == ColdStartLastProcessed(latest, lastProcessedHeight)
            rewind == IsRewind(latest, maxObservedHeight)
            lastProc == RewindCheckLastProcessed(latest, cold, maxObservedHeight)
            next == IF latest > lastProc
                      THEN [ pc |-> "forward", h |-> lastProc + 1, latest |-> latest ]
                      ELSE [ pc |-> "recheck", h |-> RecheckStart(latest),
                             latest |-> latest ]
        IN
          /\ rewind => hourlyStats.chainRewinds < MaxCount
          /\ MainnetEmit(ColdStartEvents(latest, lastProcessedHeight)
                           \o (IF rewind
                                 THEN << ChainRewindEvent(maxObservedHeight, latest) >>
                                 ELSE << >>))
          /\ hourlyStats' = IF rewind
                              THEN [hourlyStats EXCEPT !.chainRewinds = @ + 1]
                              ELSE hourlyStats
          /\ maxObservedHeight' = IF rewind THEN latest ELSE maxObservedHeight
          /\ lastProcessedHeight' = lastProc
          /\ Goto(t, next)
          /\ highestTip' = IF rewind THEN latest ELSE Max(highestTip, latest)
          /\ step' = [MainnetBefore EXCEPT
                        !.tick = t, !.op = "latest", !.tip = latest,
                        !.oldHighestTip = highestTip]
     \/ \E message \in ErrorMessages :
          /\ MainnetEmit(OuterCatch(message))
          /\ pc' = [pc EXCEPT ![t] = "idle"]
          /\ step' = [MainnetBefore EXCEPT
                        !.tick = t, !.op = "latest", !.ok = FALSE,
                        !.error = message]
          /\ UNCHANGED << maxObservedHeight, lastProcessedHeight,
                          latestHeight, h, hourlyStats, highestTip >>
  /\ UNCHANGED << chain, blockCache, lastReceived, lastChainId, lastGenesisHash,
                  lastMetadataCheckMs, audit, txVars, config, pendingReport >>

\* forward sync: processBlock(h) returns true or false; the loop goes on and
\* lastProcessedHeight is set to latestHeight behind it
MainnetForwardDone(t) ==
  /\ pc[t] = "forward"
  /\ LET k == h[t]
         latest == latestHeight[t]
     IN
     /\ \/ /\ FetchOk(k)
           /\ LET r == MainnetProcessBlock(blockCache, maxObservedHeight, hourlyStats,
                                           BlockOf(k, HashAt(k)))
              IN
                /\ WithinCap(r.stats)
                /\ MainnetEmit(r.events)
                /\ maxObservedHeight' = r.maxObserved
                /\ blockCache' = r.cache
                /\ Remember
                /\ hourlyStats' = r.stats
                /\ step' = [MainnetBefore EXCEPT
                              !.tick = t, !.op = "forward", !.height = k,
                              !.tip = latest,
                              !.cachedHash = CachedHashAt(blockCache, k),
                              !.cachedParent = CachedHashAt(blockCache, k - 1)]
        \/ \E message \in ErrorMessages :
             /\ MainnetEmit(<< >>)
             /\ step' = [MainnetBefore EXCEPT
                           !.tick = t, !.op = "forward", !.height = k,
                           !.ok = FALSE, !.error = message, !.tip = latest]
             /\ UNCHANGED << maxObservedHeight, blockCache, lastReceived, hourlyStats >>
     /\ lastProcessedHeight' = MainnetForwardLastProcessed(latest, lastProcessedHeight, k)
     /\ Goto(t, MainnetAfterForward(latest, k))
  /\ UNCHANGED << chain, lastChainId, lastGenesisHash, lastMetadataCheckMs,
                  audit, txVars, config, pendingReport, highestTip >>

\* deep recheck: processBlock(h) returns; after the last height the cache is
\* pruned and the tick ends
MainnetRecheckDone(t) ==
  /\ pc[t] = "recheck"
  /\ LET k == h[t]
         latest == latestHeight[t]
     IN
     \/ /\ FetchOk(k)
        /\ LET r == MainnetProcessBlock(blockCache, maxObservedHeight, hourlyStats,
                                        BlockOf(k, HashAt(k)))
               next == MainnetAfterRecheck(latest, r.cache, k)
           IN
             /\ WithinCap(r.stats)
             /\ MainnetEmit(r.events)
             /\ maxObservedHeight' = r.maxObserved
             /\ blockCache' = next.cache
             /\ Remember
             /\ hourlyStats' = r.stats
             /\ Goto(t, next)
             /\ step' = [MainnetBefore EXCEPT
                           !.tick = t, !.op = "recheck", !.height = k,
                           !.tip = latest, !.pruned = next.pruned,
                           !.cachedHash = CachedHashAt(blockCache, k),
                           !.cachedParent = CachedHashAt(blockCache, k - 1)]
     \/ \E message \in ErrorMessages :
          LET next == MainnetAfterRecheck(latest, blockCache, k) IN
          /\ MainnetEmit(<< >>)
          /\ blockCache' = next.cache
          /\ Remember
          /\ Goto(t, next)
          /\ step' = [MainnetBefore EXCEPT
                        !.tick = t, !.op = "recheck", !.height = k,
                        !.ok = FALSE, !.error = message, !.tip = latest,
                        !.pruned = next.pruned]
          /\ UNCHANGED << maxObservedHeight, hourlyStats >>
  /\ UNCHANGED << chain, lastProcessedHeight, lastChainId, lastGenesisHash,
                  lastMetadataCheckMs, audit, txVars, config, pendingReport,
                  highestTip >>

\* generateHourlyReport
ThreatAssessmentFromFive(stats) ==
  IF stats.chainRewinds > 0 THEN "CRITICAL"
  ELSE IF stats.reorgsDetected >= 5 \/ stats.blocksReplaced > 10 THEN "HIGH"
  ELSE IF stats.reorgsDetected > 0 \/ stats.blocksReplaced > 0 THEN "MEDIUM"
  ELSE "LOW"
ThreatAssessment(stats) ==
  IF stats.chainRewinds > 0 THEN "CRITICAL"
  ELSE IF stats.reorgsDetected > 5 \/ stats.blocksReplaced > 10 THEN "HIGH"
  ELSE IF stats.reorgsDetected > 0 \/ stats.blocksReplaced > 0 THEN "MEDIUM"
  ELSE "LOW"

ThreatDetails(stats) ==
  IF stats.chainRewinds > 0 THEN << "Chain rewind detected" >>
  ELSE IF stats.reorgsDetected > 5 \/ stats.blocksReplaced > 10
    THEN << "High frequency of reorgs/replacements" >>
  ELSE IF stats.reorgsDetected > 0 \/ stats.blocksReplaced > 0
    THEN << "Minor reorg activity observed" >>
  ELSE << >>

\* ((now() - startTime) / 60000).toFixed(2), in hundredths of a minute
DurationMinutes(elapsedMs) == (elapsedMs + 300) \div 600

HourlyReportEvent(stats, nowMs) ==
  [ type |-> "HOURLY_REPORT", report_type |-> "HOURLY_ANALYSIS",
    duration_minutes |-> DurationMinutes(nowMs - stats.startTime),
    stats |-> stats, threat_assessment |-> ThreatAssessment(stats),
    threat_details |-> ThreatDetails(stats) ]

\* generateHourlyReport suspends at `await sendAlert` when the threat is not
\* LOW and an alertWebhookUrl is set; otherwise sendAlert has nothing to
\* await and the function runs to its end in one turn
ReportAwaits(stats) == sink # "none" /\ ThreatAssessment(stats) # "LOW"

\* the report timer fires, at any time (one report in flight at a time): the
\* counters are read, HOURLY_REPORT is logged, sendAlert is called when the
\* threat is not LOW, and the counters are reset unless the call is awaited
GenerateHourlyReport ==
  /\ pendingReport = << >>
  /\ \E nowMs \in ClockFloor..MaxTime : \E resetMs \in nowMs..MaxTime :
       LET report == HourlyReportEvent(hourlyStats, nowMs) IN
       /\ events' = << report >>
       /\ IF ReportAwaits(hourlyStats)
            THEN /\ pendingReport' = << [ report |-> report, at |-> nowMs ] >>
                 /\ hourlyStats' = hourlyStats
            ELSE /\ pendingReport' = << >>
                 /\ hourlyStats' = ResetStats(resetMs)
  /\ alerts' = IF ThreatAssessment(hourlyStats) # "LOW"
                 THEN << "HOURLY_THREAT_REPORT" >> ELSE << >>
  /\ sideLog' = << >>
  /\ step' = [Before EXCEPT !.op = "report", !.oldStats = hourlyStats,
                            !.reported = hourlyStats]
  /\ UNCHANGED << chain, monitorVars, lastReceived, pc, latestHeight, h, audit, txVars,
                  config, sink, posts, highestTip >>

\* the awaited sendAlert of the report returns (its fetch answered or failed,
\* the failure is caught and printed): resetHourlyStats()
ReportResumes ==
  /\ pendingReport # << >>
  /\ sink \in {"ok", "fails"}
  /\ \E resetMs \in Max(ClockFloor, pendingReport[1].at)..MaxTime :
       hourlyStats' = ResetStats(resetMs)
  /\ pendingReport' = << >>
  /\ events' = << >>
  /\ alerts' = << >>
  /\ sideLog' = IF sink = "fails" THEN << "Failed to send alert:" >> ELSE << >>
  /\ step' = [Before EXCEPT !.op = "reset", !.ok = (sink = "ok"),
                            !.oldStats = hourlyStats,
                            !.reported = pendingReport[1].report.stats]
  /\ UNCHANGED << chain, monitorVars, lastReceived, pc, latestHeight, h, audit, txVars,
                  config, sink, posts, highestTip >>

\* sequential ticks and the report timer, against a node (serving any of
\* Chains) whose tip may drop
NextMainnet ==
  \/ \E t \in SeqTicks : MainnetTickStart(t)
  \/ \E t \in SeqTicks : MainnetProbeDone(t)
  \/ \E t \in SeqTicks : MainnetTipDone(t)
  \/ \E t \in SeqTicks : MainnetForwardDone(t)
  \/ \E t \in SeqTicks : MainnetRecheckDone(t)
  \/ GenerateHourlyReport
  \/ ChainRewind

SpecMainnet == Init /\ [][NextMainnet]_vars

\* one report window of the same monitor (the report timer does not fire),
\* against a node whose blocks may be replaced and whose tip may drop
NextCounters ==
  \/ \E t \in SeqTicks : MainnetTickStart(t)
  \/ \E t \in SeqTicks : MainnetProbeDone(t)
  \/ \E t \in SeqTicks : MainnetTipDone(t)
  \/ \E t \in SeqTicks : MainnetForwardDone(t)
  \/ \E t \in SeqTicks : MainnetRecheckDone(t)
  \/ ChainReplace
  \/ ChainRewind

SpecCounters == Init /\ [][NextCounters]_vars

(* ----------------------- ticks that keep running ---------------------- *)
\* start() of the variant against a node of heights 0..1 whose tip may
\* drop: the poll timer goes on calling tick() and every await of a tick
\* settles, the report timer goes on calling generateHourlyReport().
InitLive ==
  /\ Init
  /\ Tip <= 1

MainnetTickRuns ==
  \E t \in SeqTicks :
    \/ MainnetTickStart(t)
    \/ MainnetProbeDone(t)
    \/ MainnetTipDone(t)
    \/ MainnetForwardDone(t)
    \/ MainnetRecheckDone(t)

NextLive ==
  \/ MainnetTickRuns
  \/ GenerateHourlyReport
  \/ ChainRewind

FairLive ==
  /\ WF_vars(MainnetTickRuns)
  /\ WF_vars(GenerateHourlyReport)

SpecLive == InitLive /\ [][NextLive]_vars /\ FairLive

\* the same for awaited ticks of monitor_reorg.js, whose node may also
\* replace blocks
TickRuns ==
  \E t \in SeqTicks :
    \/ TickStart(t)
    \/ ProbeDone(t)
    \/ TipDone(t)
    \/ ForwardDone(t)
    \/ RecheckDone(t)

NextLiveAwaited ==
  \/ TickRuns
  \/ ChainRewind
  \/ ChainReplace

SpecLiveAwaited == InitLive /\ [][NextLiveAwaited]_vars /\ WF_vars(TickRuns)

\* the same monitor with an alertWebhookUrl whose POSTs are answered: the
\* report is suspended while its alert is sent
InitReport == InitWith({"ok"})

NextReport ==
  \/ \E t \in SeqTicks : MainnetTickStart(t)
  \/ \E t \in SeqTicks : MainnetProbeDone(t)
  \/ \E t \in SeqTicks : MainnetTipDone(t)
  \/ \E t \in SeqTicks : MainnetForwardDone(t)
  \/ \E t \in SeqTicks : MainnetRecheckDone(t)
  \/ GenerateHourlyReport
  \/ ReportResumes
  \/ ChainRewind

SpecReport == InitReport /\ [][NextReport]_vars

(* ------------- the threat assessment on arbitrary counters ------------ *)
\* the counters an hour may end with
StatsInputs ==
  { [NoStats EXCEPT !.reorgsDetected = reorgs, !.blocksReplaced = replaced,
                    !.chainRewinds = rewinds] :
      reorgs \in 0..MaxReorgs, replaced \in 0..MaxReplaced, rewinds \in 0..MaxCount }

InitThreat ==
  /\ chain = << 1 >>
  /\ blockCache = << >>
  /\ lastReceived = << >>
  /\ maxObservedHeight = 0
  /\ lastProcessedHeight = -1
  /\ lastChainId = Null
  /\ lastGenesisHash = Null
  /\ lastMetadataCheckMs = 0
  /\ pc = [t \in TickIds |-> "idle"]
  /\ latestHeight = [t \in TickIds |-> 0]
  /\ h = [t \in TickIds |-> 0]
  /\ events = << >>
  /\ alerts = << >>
  /\ step = NoStep
  /\ audit = NoAudit
  /\ txOld = << >>
  /\ txNew = << >>
  /\ txDiff = [ dropped |-> << >>, added |-> << >> ]
  /\ sink = "none"
  /\ posts = 0
  /\ sideLog = << >>
  /\ hourlyStats \in StatsInputs
  /\ pendingReport = << >>
  /\ highestTip = -1
  /\ config = DefaultConfig

NextThreat == GenerateHourlyReport

SpecThreat == InitThreat /\ [][NextThreat]_vars

(* ------------------ createMonitor on arbitrary options ---------------- *)
\* the options createMonitor may be called with: with or without a client,
\* any two depths
OptionsInputs ==
  { [DefaultConfig EXCEPT !.client = client, !.recheckDepth = recheck,
                          !.cacheDepth = cache, !.status = "options"] :
      client \in BOOLEAN, recheck \in 1..MaxDepth, cache \in 1..MaxDepth }

\* createMonitor(options): a missing client throws, every other option is
\* taken as it was passed
CreateMonitor(options) ==
  IF options.client
    THEN [options EXCEPT !.status = "created"]
    ELSE [options EXCEPT !.status = "rejected"]

\* the first height of deep recheck and the prune floor of a tick whose tip
\* is `latest`, for the depths of `cfg`
ConfiguredRecheckStart(cfg, latest) == Max(0, latest - cfg.recheckDepth + 1)
ConfiguredMinHeightToKeep(cfg, latest) == Max(0, latest - cfg.cacheDepth + 1)

Construct ==
  /\ config.status = "options"
  /\ config' = CreateMonitor(config)
  /\ step' = [NoStep EXCEPT !.op = "create"]
  /\ UNCHANGED << chain, monitorVars, lastReceived, pc, latestHeight, h, events, alerts,
                  audit, txVars, sinkVars, hourlyStats, pendingReport,
                  highestTip >>

\* a tick of the created monitor is given the tip `latest`
PlanTick ==
  /\ config.status = "created"
  /\ config.latest = -1
  /\ \E latest \in 0..MaxConfigTip :
       config' = [config EXCEPT
                    !.latest = latest,
                    !.startHeight = ConfiguredRecheckStart(config, latest),
                    !.minHeightToKeep = ConfiguredMinHeightToKeep(config, latest)]
  /\ step' = [NoStep EXCEPT !.op = "plan"]
  /\ UNCHANGED << chain, monitorVars, lastReceived, pc, latestHeight, h, events, alerts,
                  audit, txVars, sinkVars, hourlyStats, pendingReport,
                  highestTip >>

InitConfig ==
  /\ chain = << 1 >>
  /\ blockCache = << >>
  /\ lastReceived = << >>
  /\ maxObservedHeight = 0
  /\ lastProcessedHeight = -1
  /\ lastChainId = Null
  /\ lastGenesisHash = Null
  /\ lastMetadataCheckMs = 0
  /\ pc = [t \in TickIds |-> "idle"]
  /\ latestHeight = [t \in TickIds |-> 0]
  /\ h = [t \in TickIds |-> 0]
  /\ events = << >>
  /\ alerts = << >>
  /\ step = NoStep
  /\ audit = NoAudit
  /\ txOld = << >>
  /\ txNew = << >>
  /\ txDiff = [ dropped |-> << >>, added |-> << >> ]
  /\ sink = "none"
  /\ posts = 0
  /\ sideLog = << >>
  /\ hourlyStats = NoStats
  /\ pendingReport = << >>
  /\ highestTip = -1
  /\ config \in OptionsInputs

NextConfig == Construct \/ PlanTick

SpecConfig == InitConfig /\ [][NextConfig]_vars

(* ------------- the transaction diff on arbitrary tx lists ------------- *)
TxIds == 1..NumTx
TxLists == UNION { [1..n -> TxIds] : n \in 0..MaxTxLen }

\* the tx_diff of a BLOCK_REPLACED event, for a cached list txOld and a
\* fetched list txNew
ComputeTxDiff ==
  /\ step.op = "none"
  /\ txDiff' = TxDiffOf(txOld, txNew)
  /\ step' = [NoStep EXCEPT !.op = "txdiff"]
  /\ UNCHANGED << chain, monitorVars, lastReceived, pc, latestHeight, h, events, alerts,
                  audit, txOld, txNew, sinkVars, hourlyStats, pendingReport,
                  highestTip, config >>

InitTxDiff ==
  /\ chain = << 1 >>
  /\ blockCache = << >>
  /\ lastReceived = << >>
  /\ maxObservedHeight = 0
  /\ lastProcessedHeight = -1
  /\ lastChainId = Null
  /\ lastGenesisHash = Null
  /\ lastMetadataCheckMs = 0
  /\ pc = [t \in TickIds |-> "idle"]
  /\ latestHeight = [t \in TickIds |-> 0]
  /\ h = [t \in TickIds |-> 0]
  /\ events = << >>
  /\ alerts = << >>
  /\ step = NoStep
  /\ audit = NoAudit
  /\ txOld \in TxLists
  /\ txNew \in TxLists
  /\ txDiff = [ dropped |-> << >>, added |-> << >> ]
  /\ sink = "none"
  /\ posts = 0
  /\ sideLog = << >>
  /\ hourlyStats = NoStats
  /\ pendingReport = << >>
  /\ highestTip = -1
  /\ config = DefaultConfig

NextTxDiff == ComputeTxDiff

SpecTxDiff == InitTxDiff /\ [][NextTxDiff]_vars

(* ============================== claims ================================ *)
EventsOfType(evs, type) == SelectSeq(evs, LAMBDA e : e.type = type)
HasEvent(evs, type) == Len(EventsOfType(evs, type)) > 0
MismatchType == "PARENT_HASH_MISMATCH_DETECTED"

\* the step just taken resumed processBlock with a fetched block
ProcessedOk(st) == st.op \in {"forward", "recheck"} /\ st.ok

\* C1: for every processBlock(k) whose fetch succeeds, BLOCK_REPLACED for k
\* is emitted exactly when the cache held k under another hash than the
\* fetched one; the event carries the cached hash as old_hash and the fetched
\* hash as new_hash, and on return the cache entry at k has the fetched hash
\* (the step that ends the tick may then prune k again, below the floor).
C1_BlockReplacedIff ==
  ProcessedOk(step) =>
    LET k == step.height
        new == HashAt(k)
        rep == EventsOfType(events, "BLOCK_REPLACED")
        stale == step.cachedHash # Null /\ step.cachedHash # new
    IN  /\ Len(rep) = (IF stale THEN 1 ELSE 0)
        /\ stale => /\ rep[1].height = k
                    /\ rep[1].old_hash = step.cachedHash
                    /\ rep[1].new_hash = new
        /\ \/ k \in DOMAIN blockCache /\ blockCache[k].hash = new
           \/ step.pruned /\ k < step.tip - cacheDepth + 1

\* C1 witness: a processBlock step has just replaced a cached block
C1_Witness ==
  /\ ProcessedOk(step)
  /\ HasEvent(events, "BLOCK_REPLACED")
  /\ step.height \in DOMAIN blockCache
  /\ blockCache[step.height].hash = HashAt(step.height)

\* C2: for every processBlock(k) whose fetch succeeds, the parent-hash
\* mismatch event is emitted exactly when the cache held k-1 under a hash
\* other than the fetched block's parent hash, with at_height = k,
\* expected_parent = the cached hash and actual_parent = the fetched parent
\* hash, whether or not BLOCK_REPLACED was emitted in the same call.
C2_ParentMismatchIff ==
  ProcessedOk(step) =>
    LET k == step.height
        parent == ParentHashOf(HashAt(k))
        mis == EventsOfType(events, MismatchType)
        broken == step.cachedParent # Null /\ step.cachedParent # parent
    IN  /\ Len(mis) = (IF broken THEN 1 ELSE 0)
        /\ broken => /\ mis[1].at_height = k
                     /\ mis[1].expected_parent = step.cachedParent
                     /\ mis[1].actual_parent = parent

\* C2 witness: one processBlock call emitted BLOCK_REPLACED and the mismatch
C2_Witness ==
  /\ ProcessedOk(step)
  /\ HasEvent(events, MismatchType)
  /\ HasEvent(events, "BLOCK_REPLACED")

\* C3: the step that takes the fetched tip L emits exactly one CHAIN_REWIND
\* {from_height = the previous maxObservedHeight, to_height = L} and sets both
\* watermarks to L when L < maxObservedHeight, and no CHAIN_REWIND otherwise;
\* no other step emits CHAIN_REWIND, the tick has processed no block yet at
\* that step, and blocks are only processed in the later phases of the tick.
C3_RewindOncePerTick ==
  [][ /\ (step'.op = "latest" /\ step'.ok) =>
           LET L == step'.tip IN
           IF L < maxObservedHeight
             THEN /\ events' = << [ type |-> "CHAIN_REWIND",
                                    from_height |-> maxObservedHeight,
                                    to_height |-> L, severity |-> "CRITICAL" ] >>
                  /\ maxObservedHeight' = L
                  /\ lastProcessedHeight' = L
             ELSE /\ ~ HasEvent(events', "CHAIN_REWIND")
                  /\ maxObservedHeight' = maxObservedHeight
      /\ HasEvent(events', "CHAIN_REWIND") =>
           /\ step'.op = "latest" /\ step'.ok
           /\ pc[step'.tick] = "tip"
      /\ step'.op \in {"forward", "recheck"} =>
           pc[step'.tick] \in {"forward", "recheck"}
      /\ \A t \in TickIds :
           pc'[t] = "tip" /\ pc[t] # "tip" => pc[t] \in {"idle", "probe"}
    ]_vars

\* C3 witness: a tick has just emitted CHAIN_REWIND and reset both watermarks
C3_Witness ==
  /\ step.op = "latest"
  /\ HasEvent(events, "CHAIN_REWIND")
  /\ maxObservedHeight = step.tip
  /\ lastProcessedHeight = step.tip

\* C4: a tick in which every RPC call succeeds and the chain does not change
\* emits, from its deep-recheck phase, BLOCK_REPLACED for every non-tip
\* height that was cached under a stale hash when the tick began and lies in
\* [max(0, L - recheckDepth + 1), lastProcessedHeight].
C4_RecheckFindsNonTipReorg ==
  (step.pruned /\ audit.stable) => audit.due \subseteq audit.replaced

\* C4 witness: such a tick has ended and a non-tip block had been replaced
C4_Witness ==
  /\ step.pruned
  /\ audit.stable
  /\ audit.due # {}
  /\ audit.due \subseteq audit.replaced

\* C5: whenever a tick has finished its prune phase, the cache holds at most
\* cacheDepth entries.
C5_CacheSizeBounded ==
  step.pruned => Cardinality(DOMAIN blockCache) <= cacheDepth

\* C6: whenever a tick with tip L has finished its prune phase, every cached
\* height is at least L - cacheDepth + 1.
C6_CacheFloor ==
  step.pruned => \A k \in DOMAIN blockCache : k >= step.tip - cacheDepth + 1

\* C6 witness: a prune with a floor above 0 has just run on a non-empty cache
C6_Witness ==
  /\ step.pruned
  /\ step.tip - cacheDepth + 1 > 0
  /\ DOMAIN blockCache # {}

\* C7: on an identity probe whose two fetches succeed, CHAIN_ID_CHANGED
\* {old, new} is emitted exactly when a chain id was recorded and differs
\* from the fetched one, GENESIS_CHANGED {old, new} exactly when a genesis
\* hash was recorded and differs; the first observation emits neither;
\* afterwards both recorded values equal the fetched ones; no other step
\* emits an identity event.
C7_IdentityProbe ==
  /\ (step.op = "probe" /\ step.ok) =>
       LET id == step.chainId
           genesis == HashAt(0)
       IN  /\ events =
                (IF step.oldChainId # Null /\ step.oldChainId # id
                   THEN << [ type |-> "CHAIN_ID_CHANGED", old_chain_id |-> step.oldChainId,
                             new_chain_id |-> id, severity |-> "CRITICAL" ] >>
                   ELSE << >>)
                \o
                (IF step.oldGenesisHash # Null /\ step.oldGenesisHash # genesis
                   THEN << [ type |-> "GENESIS_CHANGED",
                             old_genesis_hash |-> step.oldGenesisHash,
                             new_genesis_hash |-> genesis, severity |-> "CRITICAL" ] >>
                   ELSE << >>)
           /\ lastChainId = id
           /\ lastGenesisHash = genesis
  /\ (HasEvent(events, "CHAIN_ID_CHANGED") \/ HasEvent(events, "GENESIS_CHANGED"))
       => (step.op = "probe" /\ step.ok)

\* C7 witness: a probe has just reported both changes
C7_Witness ==
  /\ step.op = "probe"
  /\ HasEvent(events, "CHAIN_ID_CHANGED")
  /\ HasEvent(events, "GENESIS_CHANGED")
  /\ lastChainId = step.chainId

\* C8: an error of the identity probe or of the tip fetch ends the tick (no
\* later phase runs); it emits nothing when its message contains
\* "Block not found" and exactly one RPC_ERROR {error} otherwise.
C8_OuterGuard ==
  (step.op \in {"probe", "latest"} /\ ~ step.ok) =>
    /\ pc[step.tick] = "idle"
    /\ ~ step.pruned
    /\ events = IF Includes(step.error, BlockNotFound)
                  THEN << >>
                  ELSE << [ type |-> "RPC_ERROR", error |-> step.error ] >>

\* C8 witness: a tick has just ended silently on "Block not found"
C8_Witness ==
  /\ step.op \in {"probe", "latest"}
  /\ ~ step.ok
  /\ Includes(step.error, BlockNotFound)
  /\ events = << >>
  /\ pc[step.tick] = "idle"

\* C9: no RPC_ERROR event is ever emitted for a failure whose message
\* contains "Block not found", whatever the phase of the tick.
C9_NoRpcErrorForBlockNotFound ==
  \A i \in 1..Len(events) :
    events[i].type = "RPC_ERROR" => ~ Includes(events[i].error, BlockNotFound)

\* the elements of `list` that do not occur in `other`, in the order of
\* `list`, each as often as it occurs in `list`
KeptIndices(list, other) == { i \in 1..Len(list) : \A j \in 1..Len(other) : list[i] # other[j] }
IsRemainder(result, list, other) ==
  LET kept == KeptIndices(list, other) IN
  /\ Len(result) = Cardinality(kept)
  /\ \A i \in kept : result[Cardinality({ j \in kept : j <= i })] = list[i]

\* C10: tx_diff.dropped is the old block's transaction hashes that do not
\* occur in the new block, in the old block's order, tx_diff.added the new
\* block's hashes that do not occur in the old block, in the new block's
\* order; duplicates within one side are kept and the lists share no hash.
C10_TxDiff ==
  step.op = "txdiff" =>
    /\ IsRemainder(txDiff.dropped, txOld, txNew)
    /\ IsRemainder(txDiff.added, txNew, txOld)
    /\ \A i \in 1..Len(txDiff.dropped) : \A j \in 1..Len(txDiff.added) :
         txDiff.dropped[i] # txDiff.added[j]

\* C10 witness: a diff that keeps a duplicate, drops a shared hash and has
\* both sides non-empty
C10_Witness ==
  /\ step.op = "txdiff"
  /\ \E i, j \in 1..Len(txDiff.dropped) : i < j /\ txDiff.dropped[i] = txDiff.dropped[j]
  /\ Len(txDiff.dropped) < Len(txOld)
  /\ txDiff.added # << >>

\* the cache a tick leaves after a step that changed no entry: pruned if the
\* step ended the tick
SameCacheAfter(st) ==
  IF st.pruned
    THEN [ k \in { x \in DOMAIN st.oldCache : x >= st.tip - cacheDepth + 1 }
             |-> st.oldCache[k] ]
    ELSE st.oldCache

RewindStep == step.op = "latest" /\ step.ok /\ HasEvent(events, "CHAIN_REWIND")

\* C11: a forward-sync processBlock(k) that fails emits exactly one RPC_ERROR
\* naming k, leaves lastProcessedHeight at k - 1 and ends forward sync; one
\* that succeeds advances lastProcessedHeight from k - 1 to k; forward sync
\* always fetches lastProcessedHeight + 1 next; and lastProcessedHeight rises
\* in no other step than a successful forward-sync step (by one) and the
\* cold start.
C11_ForwardSyncNoGap ==
  /\ (step.op = "forward" /\ ~ step.ok) =>
       /\ Len(events) = 1
       /\ events[1].type = "RPC_ERROR"
       /\ events[1].message.height = step.height
       /\ events[1].error = step.error
       /\ lastProcessedHeight = step.oldLastProcessed
       /\ lastProcessedHeight = step.height - 1
       /\ pc[step.tick] # "forward"
  /\ (step.op = "forward" /\ step.ok) =>
       /\ step.oldLastProcessed = step.height - 1
       /\ lastProcessedHeight = step.height
  /\ \A t \in SeqTicks : pc[t] = "forward" => h[t] = lastProcessedHeight + 1
  /\ lastProcessedHeight > step.oldLastProcessed =>
       \/ step.op = "forward" /\ step.ok
       \/ step.op = "latest" /\ HasEvent(events, "MONITOR_SKIP_HISTORY")

\* C12: a deep-recheck processBlock(k) that fails emits exactly one RPC_ERROR
\* naming k and changes no cache entry; after every recheck step, failed or
\* not, the tick goes on to recheck k + 1 while k < lastProcessedHeight, and
\* otherwise prunes the cache and ends.
C12_RecheckContinues ==
  /\ (step.op = "recheck" /\ ~ step.ok) =>
       /\ events = << [ type |-> "RPC_ERROR",
                        message |-> [ text |-> "Recheck failed for",
                                      height |-> step.height ],
                        error |-> step.error ] >>
       /\ blockCache = SameCacheAfter(step)
       /\ step.height \in DOMAIN step.oldCache =>
            \/ /\ step.height \in DOMAIN blockCache
               /\ blockCache[step.height] = step.oldCache[step.height]
            \/ step.pruned /\ step.height < step.tip - cacheDepth + 1
  /\ step.op = "recheck" =>
       IF step.height < lastProcessedHeight
         THEN /\ pc[step.tick] = "recheck"
              /\ h[step.tick] = step.height + 1
              /\ latestHeight[step.tick] = step.tip
              /\ ~ step.pruned
         ELSE /\ pc[step.tick] = "idle"
              /\ step.pruned
              /\ \A k \in DOMAIN blockCache : k >= step.tip - cacheDepth + 1

\* C12 witness: a recheck has just failed at a cached height below
\* lastProcessedHeight and the tick is suspended at the recheck of the next
C12_Witness ==
  /\ step.op = "recheck"
  /\ ~ step.ok
  /\ step.height \in DOMAIN blockCache
  /\ step.height < lastProcessedHeight
  /\ pc[step.tick] = "recheck"
  /\ h[step.tick] = step.height + 1

\* C13: at most one tick() invocation is in flight at any time, and a tick
\* emits its events while no other invocation is in flight.
C13_TicksNeverOverlap ==
  /\ Cardinality({ t \in TickIds : pc[t] # "idle" }) <= 1
  /\ (events # << >> /\ step.tick \in TickIds) =>
       \A u \in TickIds \ {step.tick} : pc[u] = "idle"

\* C14: in every step (of a tick or of the node) maxObservedHeight is at
\* least what it was before the step, except in the step that emits
\* CHAIN_REWIND, after which it is the fetched tip height.
C14_MaxObservedMonotone ==
  \/ /\ maxObservedHeight >= step.oldMaxObserved
     /\ ~ HasEvent(events, "CHAIN_REWIND")
  \/ /\ RewindStep
     /\ maxObservedHeight = step.tip

\* C14 witness: a rewind step has just lowered maxObservedHeight to the tip
C14_Witness ==
  /\ RewindStep
  /\ maxObservedHeight < step.oldMaxObserved
  /\ maxObservedHeight = step.tip

\* C15: in every step lastProcessedHeight is at least what it was before the
\* step, except in the step that emits CHAIN_REWIND, after which it is the
\* fetched tip height L.
C15_LastProcessedMonotone ==
  \/ /\ lastProcessedHeight >= step.oldLastProcessed
     /\ ~ HasEvent(events, "CHAIN_REWIND")
  \/ /\ RewindStep
     /\ lastProcessedHeight = step.tip

\* C15 witness: a rewind step has just lowered lastProcessedHeight to L
C15_Witness ==
  /\ RewindStep
  /\ lastProcessedHeight < step.oldLastProcessed
  /\ lastProcessedHeight = step.tip

\* C16: BLOCK_RECEIVED {height k, hash H} is emitted only by a processBlock(k)
\* that fetched H while the cache did not hold k under H, and that call puts
\* (k, H) into the cache; so between two emissions of the same (k, H) the
\* entry was pruned or replaced.
C16_ReceivedOncePerEntry ==
  \A i \in 1..Len(events) :
    events[i].type = "BLOCK_RECEIVED" =>
      /\ ProcessedOk(step)
      /\ events[i].height = step.height
      /\ events[i].hash = HashAt(step.height)
      /\ Len(EventsOfType(events, "BLOCK_RECEIVED")) = 1
      /\ ~ ( /\ step.height \in DOMAIN step.oldCache
             /\ step.oldCache[step.height].hash = events[i].hash )
      /\ \/ /\ step.height \in DOMAIN blockCache
            /\ blockCache[step.height].hash = events[i].hash
         \/ step.pruned /\ step.height < step.tip - cacheDepth + 1

\* C16 witness: processBlock(k) has just fetched the hash that is cached at k
\* and has emitted nothing
C16_Witness ==
  /\ ProcessedOk(step)
  /\ step.height \in DOMAIN step.oldCache
  /\ step.oldCache[step.height].hash = HashAt(step.height)
  /\ events = << >>
  /\ blockCache = SameCacheAfter(step)

C18_RewindClearsCache ==
  RewindStep => \A k \in DOMAIN blockCache : k <= step.tip

\* what the detector logs in a step, as a function of the RPC result the
\* step consumed and of the monitor state before it
LogOf(st) ==
  IF st.op = "probe"
    THEN IF st.ok
           THEN ChainIdEvents(st.oldChainId, st.chainId)
                  \o GenesisEvents(st.oldGenesisHash, HashAt(0))
           ELSE OuterCatch(st.error)
  ELSE IF st.op = "latest"
    THEN IF st.ok
           THEN IF st.tip < st.oldMaxObserved
                  THEN << ChainRewindEvent(st.oldMaxObserved, st.tip) >>
                  ELSE << >>
           ELSE OuterCatch(st.error)
  ELSE IF st.op = "forward"
    THEN IF st.ok
           THEN ProcessBlock(st.oldCache, st.oldMaxObserved,
                             BlockOf(st.height, HashAt(st.height))).events
           ELSE << RpcErrorAt("Failed to process block", st.height, st.error) >>
  ELSE IF st.op = "recheck"
    THEN IF st.ok
           THEN ProcessBlock(st.oldCache, st.oldMaxObserved,
                             BlockOf(st.height, HashAt(st.height))).events
           ELSE << RpcErrorAt("Recheck failed for", st.height, st.error) >>
  ELSE << >>

TickStep(t) == ProbeDone(t) \/ TipDone(t) \/ ForwardDone(t) \/ RecheckDone(t)

\* C19: with a sink whose POSTs always fail or never settle, however many
\* are pending, a tick in flight can always take its next step and an idle
\* monitor can start a tick; whatever the sink does (none configured,
\* answering, failing, never answering), every step logs exactly the events
\* that the RPC result and the monitor state give, in that order; a POST
\* that settles, failed or not, logs nothing to the primary log and changes
\* no monitor state, and the only errors a tick handles are RPC errors.
C19_TickIgnoresSink ==
  /\ events = LogOf(step)
  /\ sink \in {"fails", "hangs"} =>
       \A t \in SeqTicks :
         IF pc[t] = "idle" THEN ENABLED TickStart(t) ELSE ENABLED TickStep(t)
  /\ step.op = "alert" =>
       /\ events = << >>
       /\ blockCache = step.oldCache
       /\ maxObservedHeight = step.oldMaxObserved
       /\ lastProcessedHeight = step.oldLastProcessed
  /\ (step.op # "alert" /\ ~ step.ok) => step.error \in ErrorMessages
  /\ sink \in {"none", "ok"} => sideLog = << >>

\* C19 witness: with a sink that never answers and POSTs pending, a tick has
\* just logged BLOCK_REPLACED, pruned the cache and ended
C19_Witness ==
  /\ sink = "hangs"
  /\ posts > 0
  /\ step.pruned
  /\ HasEvent(events, "BLOCK_REPLACED")
  /\ pc[step.tick] = "idle"

\* C20: MONITOR_SKIP_HISTORY is emitted only by the step that takes a
\* fetched tip L > 0 while lastProcessedHeight is -1, and by every such step,
\* with skipped_to_height = L; that step sets lastProcessedHeight to L - 1
\* and suspends the tick at the fetch of height L, the only height forward
\* sync then has; no step takes lastProcessedHeight from a height back to
\* -1, so the event is emitted at most once per run.
C20_ColdStart ==
  /\ (step.op = "latest" /\ step.ok /\ step.oldLastProcessed = -1 /\ step.tip > 0) =>
       /\ events = << [ type |-> "MONITOR_SKIP_HISTORY",
                        message |-> "Skipping historical blocks to start from latest",
                        skipped_to_height |-> step.tip ] >>
       /\ lastProcessedHeight = step.tip - 1
       /\ pc[step.tick] = "forward"
       /\ h[step.tick] = step.tip
       /\ latestHeight[step.tick] = step.tip
  /\ HasEvent(events, "MONITOR_SKIP_HISTORY") =>
       /\ step.op = "latest" /\ step.ok
       /\ step.oldLastProcessed = -1
       /\ step.tip > 0
  /\ step.oldLastProcessed >= 0 => lastProcessedHeight >= 0
  /\ (step.op = "forward" /\ step.height = step.tip) => pc[step.tick] = "recheck"

\* C20 witness: the first tip, at a height above 0, has just been taken
C20_Witness ==
  /\ HasEvent(events, "MONITOR_SKIP_HISTORY")
  /\ step.tip > 1
  /\ lastProcessedHeight = step.tip - 1
  /\ blockCache = << >>
  /\ pc[step.tick] = "forward"

\* the counters of the one HOURLY_REPORT of the last step
ReportedStats == events[1].stats

\* C21: the threat_assessment of every HOURLY_REPORT is a function of the
\* counters at emission, first match wins: CRITICAL if chain_rewinds > 0;
\* else HIGH if reorgs_detected > 5 or blocks_replaced > 10; else MEDIUM if
\* reorgs_detected > 0 or blocks_replaced > 0; else LOW.
C21_ThreatAssessment ==
  step.op = "report" =>
    /\ Len(events) = 1
    /\ events[1].type = "HOURLY_REPORT"
    /\ ReportedStats = step.oldStats
    /\ events[1].threat_assessment =
         CASE ReportedStats.chainRewinds > 0 -> "CRITICAL"
           [] ReportedStats.chainRewinds = 0
                /\ (ReportedStats.reorgsDetected > 5
                      \/ ReportedStats.blocksReplaced > 10) -> "HIGH"
           [] ReportedStats.chainRewinds = 0
                /\ ReportedStats.reorgsDetected <= 5
                /\ ReportedStats.blocksReplaced <= 10
                /\ (ReportedStats.reorgsDetected > 0
                      \/ ReportedStats.blocksReplaced > 0) -> "MEDIUM"
           [] OTHER -> "LOW"

\* C21 witness: a report was HIGH on the replaced blocks alone, with the
\* other counters below their thresholds
C21_Witness ==
  /\ step.op = "report"
  /\ events[1].threat_assessment = "HIGH"
  /\ ReportedStats.blocksReplaced = 11
  /\ ReportedStats.reorgsDetected = 5

\* the event counters of hourlyStats
CountersOf(stats) ==
  << stats.blocksReplaced, stats.reorgsDetected, stats.chainRewinds >>

\* C22: the hourly aggregation is consistent with the event stream across
\* report boundaries: the counters that a reset discards are the counters
\* that its HOURLY_REPORT carried, so that no increment made between the
\* emission of a report and the reset of hourlyStats is lost.
C22_NoIncrementLost ==
  (step.op = "reset" \/ (step.op = "report" /\ pendingReport = << >>)) =>
    CountersOf(step.oldStats) = CountersOf(step.reported)

\* C23: generateHourlyReport (reading the counters, emitting HOURLY_REPORT,
\* resetting hourlyStats) never runs while a tick is suspended between its
\* phases: reports and ticks interleave only at tick boundaries.
C23_ReportAtTickBoundary ==
  step.op \in {"report", "reset"} => \A t \in TickIds : pc[t] = "idle"

\* the step just taken resumed a tick with a rejected RPC call
FailedStep == step.op \in {"probe", "latest", "forward", "recheck"} /\ ~ step.ok

\* C24: tick() never fails towards its caller: a rejected RPC call of any
\* phase is swallowed or logged as one RPC_ERROR and nothing else; it leaves
\* the watermarks and the cache as they were (the cache pruned when the tick
\* ends with its prune phase); the tick ends or goes on with its recheck
\* phase, and when it has ended the next tick can start.
C24_TickNeverFails ==
  FailedStep =>
    /\ Len(events) <= 1
    /\ \A i \in 1..Len(events) : events[i].type = "RPC_ERROR"
    /\ maxObservedHeight = step.oldMaxObserved
    /\ lastProcessedHeight = step.oldLastProcessed
    /\ blockCache = IF step.pruned
                      THEN PruneCache(step.oldCache, MinHeightToKeep(step.tip))
                      ELSE step.oldCache
    /\ pc[step.tick] \in {"idle", "recheck"}
    /\ pc[step.tick] = "idle" => ENABLED TickStart(step.tick)

\* C24 witness: forward sync failed on a height, the tick ended through
\* prune and the cache still holds blocks
C24_Witness ==
  /\ FailedStep
  /\ step.op = "forward"
  /\ step.pruned
  /\ pc[step.tick] = "idle"
  /\ blockCache # << >>
  /\ HasEvent(events, "RPC_ERROR")

\* C25: whenever the tip height given to a tick is lower than the highest
\* tip height given to any earlier tick since start or since the last
\* CHAIN_REWIND, that tick emits CHAIN_REWIND.
C25_TipDropEmitsRewind ==
  (step.op = "latest" /\ step.ok /\ step.tip < step.oldHighestTip) =>
    HasEvent(events, "CHAIN_REWIND")

\* C26: a processBlock(k) call whose fetched hash equals the hash cached at
\* k is a no-op: it emits no event and leaves the cache unchanged (the step
\* that ends the tick prunes it).
C26_SameHashNoOp ==
  (ProcessedOk(step) /\ step.cachedHash = HashAt(step.height)) =>
    /\ events = << >>
    /\ blockCache = SameCacheAfter(step)

\* the events of a log that carry severity CRITICAL
IsCritical(e) == "severity" \in DOMAIN e /\ e.severity = "CRITICAL"
CriticalTypes(evs) ==
  LET crit == SelectSeq(evs, IsCritical)
  IN  [ i \in 1..Len(crit) |-> crit[i].type ]

\* C27: every event that a tick emits with severity CRITICAL (BLOCK_REPLACED,
\* the parent-hash mismatch, CHAIN_REWIND, CHAIN_ID_CHANGED, GENESIS_CHANGED)
\* is also handed to sendAlert, and no other event of a tick is.
C27_CriticalEventsAlerted ==
  step.op \in {"start", "probe", "latest", "forward", "recheck"} =>
    alerts = CriticalTypes(events)

\* C28: the monitor enforces recheckDepth <= cacheDepth: a monitor that was
\* created has a recheck depth no greater than its cache depth (a greater one
\* was rejected or clamped), so that the deep recheck of a tick never begins
\* below the prune floor of that tick.
C28_RecheckWithinCache ==
  config.status = "created" =>
    /\ config.recheckDepth <= config.cacheDepth
    /\ config.latest >= 0 => config.startHeight >= config.minHeightToKeep

\* an event that reports a parent-hash discontinuity
IsParentMismatch(e) == "expected_parent" \in DOMAIN e

\* C29: a parent-hash discontinuity is reported under exactly one event
\* type, PARENT_HASH_MISMATCH, and never under another name.
C29_OneMismatchName ==
  \A i \in 1..Len(events) :
    IsParentMismatch(events[i]) => events[i].type = "PARENT_HASH_MISMATCH"

\* every block of the node's chain names the block below it as its parent
LinearChain == \A k \in 1..Tip : ParentHashOf(HashAt(k)) = HashAt(k - 1)

\* C30: after one error-free tick of a fresh monitor on a linear chain with
\* heights 0..L, the cache keys are exactly the heights
\* max(0, L - cacheDepth + 1)..L.
C30_CacheKeysAfterFirstTick ==
  (step.pruned /\ audit.stable /\ audit.fresh /\ LinearChain) =>
    /\ step.tip = Tip
    /\ DOMAIN blockCache = Max(0, Tip - cacheDepth + 1)..Tip

\* C30 witness: such a tick has ended on a chain longer than the cache is
\* deep, so that the lowest height was pruned
C30_Witness ==
  /\ step.pruned
  /\ audit.stable
  /\ audit.fresh
  /\ LinearChain
  /\ Tip - cacheDepth + 1 > 0
  /\ DOMAIN blockCache = (Tip - cacheDepth + 1)..Tip

\* the step just taken resumed processBlock with a rejected fetch
ProcessFailed(st) == st.op \in {"forward", "recheck"} /\ ~ st.ok

\* C31: a processBlock(k) call whose block fetch fails raises the error to
\* its caller and changes nothing: the cache (pruned when the tick then
\* ends), maxObservedHeight, lastProcessedHeight and the hourly counters are
\* as before, and no event is logged but the RPC_ERROR of the caller.
C31_FailedFetchChangesNothing ==
  ProcessFailed(step) =>
    /\ step.thrown
    /\ blockCache = SameCacheAfter(step)
    /\ maxObservedHeight = step.oldMaxObserved
    /\ lastProcessedHeight = step.oldLastProcessed
    /\ hourlyStats = step.oldStats
    /\ \A i \in 1..Len(events) : events[i].type = "RPC_ERROR"

\* the position of an event type in the order of the three rules
RuleOf(type) ==
  CASE type = "BLOCK_REPLACED" -> 1
    [] type = MismatchType -> 2
    [] type = "BLOCK_RECEIVED" -> 3
    [] OTHER -> 0

\* C32: within one processBlock call the events are emitted in the order
\* BLOCK_REPLACED, parent-hash mismatch, BLOCK_RECEIVED (each at most once),
\* and the parent-hash check compares against the cache as it was before
\* the call wrote to it.
C32_EventOrder ==
  ProcessedOk(step) =>
    /\ \A i \in 1..Len(events) : RuleOf(events[i].type) > 0
    /\ \A i, j \in 1..Len(events) :
         i < j => RuleOf(events[i].type) < RuleOf(events[j].type)
    /\ \A i \in 1..Len(events) :
         events[i].type = MismatchType =>
           events[i].expected_parent = step.oldCache[step.height - 1].hash

\* C32 witness: one call emitted all three events
C32_Witness ==
  /\ ProcessedOk(step)
  /\ Len(events) = 3
  /\ events[1].type = "BLOCK_REPLACED"
  /\ events[2].type = MismatchType
  /\ events[3].type = "BLOCK_RECEIVED"

\* C33: in every tick the phases run in the fixed order identity probe, tip
\* fetch (with cold start and rewind check), forward sync, deep recheck,
\* prune: a tick never goes back to an earlier phase; blocks are processed
\* only in the forward and recheck phases, after the step that took the tip
\* and made the rewind check, and CHAIN_REWIND comes from that step only;
\* recheck begins straight after the tip only when there is nothing to sync;
\* the cache loses entries only in the step that ends the tick.
C33_PhaseOrder ==
  [][ /\ \A t \in TickIds :
           /\ pc[t] = "idle" => pc'[t] \in {"idle", "probe", "tip"}
           /\ pc[t] = "probe" => pc'[t] \in {"probe", "tip", "idle"}
           /\ pc[t] = "tip" => pc'[t] \in {"tip", "forward", "recheck", "idle"}
           /\ pc[t] = "forward" => pc'[t] \in {"forward", "recheck", "idle"}
           /\ pc[t] = "recheck" => pc'[t] \in {"recheck", "idle"}
           /\ (pc[t] = "tip" /\ pc'[t] = "recheck") =>
                latestHeight'[t] <= lastProcessedHeight'
      /\ step'.op \in {"forward", "recheck"} => pc[step'.tick] = step'.op
      /\ HasEvent(events', "CHAIN_REWIND") =>
           (step'.op = "latest" /\ pc[step'.tick] = "tip")
      /\ step'.pruned => pc'[step'.tick] = "idle"
      /\ (DOMAIN blockCache \ DOMAIN blockCache' # {}) => step'.pruned
    ]_vars

\* C33 witness: a tick whose forward sync had reached the tip has ended its
\* recheck with a prune that removed an entry
C33_Witness ==
  /\ step.op = "recheck"
  /\ step.pruned
  /\ step.oldLastProcessed = step.tip
  /\ DOMAIN blockCache # DOMAIN step.oldCache

\* C34: lastMetadataCheckMs is set to the current time before the identity
\* RPC calls are issued: while they are in flight it already holds the time
\* the tick read; a probe is made exactly when chainMetadataPollMs has
\* elapsed since the last one, whether or not that one failed; when the
\* probe fails the tick ends at the outer guard without tip fetch, block
\* processing or prune, lastChainId and lastGenesisHash are unchanged, no
\* identity event is emitted and lastMetadataCheckMs keeps the time that the
\* tick stored.
C34_ProbeStamp ==
  /\ step.op = "start" =>
       /\ pc[step.tick] = "probe" <=>
            step.nowMs - step.oldMetadataCheckMs >= chainMetadataPollMs
       /\ pc[step.tick] = "probe" => lastMetadataCheckMs = step.nowMs
       /\ pc[step.tick] # "probe" => lastMetadataCheckMs = step.oldMetadataCheckMs
  /\ (step.op = "probe" /\ ~ step.ok) =>
       /\ pc[step.tick] = "idle"
       /\ ~ step.pruned
       /\ blockCache = step.oldCache
       /\ maxObservedHeight = step.oldMaxObserved
       /\ lastProcessedHeight = step.oldLastProcessed
       /\ lastChainId = step.oldChainId
       /\ lastGenesisHash = step.oldGenesisHash
       /\ ~ HasEvent(events, "CHAIN_ID_CHANGED")
       /\ ~ HasEvent(events, "GENESIS_CHANGED")
       /\ lastMetadataCheckMs = step.oldMetadataCheckMs

\* C34 witness: a probe has failed with an identity on record
C34_Witness ==
  /\ step.op = "probe"
  /\ ~ step.ok
  /\ pc[step.tick] = "idle"
  /\ lastChainId # Null
  /\ lastMetadataCheckMs > 0

\* the number of events of a type in the log of the last step
CountOf(type) == Len(EventsOfType(events, type))

\* C35: within one report window blocksReplaced is incremented exactly once
\* per BLOCK_REPLACED event, reorgsDetected once per parent-hash-mismatch
\* event (REORG_DETECTED), chainRewinds once per CHAIN_REWIND event, and
\* blocksProcessed once per processBlock call whose fetch succeeded, also
\* when the call emits nothing; no other step changes a counter.
C35_CountersFollowEvents ==
  step.op \in {"start", "probe", "latest", "forward", "recheck"} =>
    /\ hourlyStats.blocksReplaced
         = step.oldStats.blocksReplaced + CountOf("BLOCK_REPLACED")
    /\ hourlyStats.reorgsDetected
         = step.oldStats.reorgsDetected + CountOf("REORG_DETECTED")
    /\ hourlyStats.chainRewinds
         = step.oldStats.chainRewinds + CountOf("CHAIN_REWIND")
    /\ hourlyStats.blocksProcessed
         = step.oldStats.blocksProcessed + (IF ProcessedOk(step) THEN 1 ELSE 0)
    /\ hourlyStats.startTime = step.oldStats.startTime

\* C35 witness: a recheck of a block that forward sync had just cached
\* emitted nothing and was counted as processed
C35_Witness ==
  /\ ProcessedOk(step)
  /\ step.op = "recheck"
  /\ events = << >>
  /\ step.oldStats.blocksProcessed = 1
  /\ hourlyStats.blocksProcessed = 2

\* C36: when the tip drops from M to L < M, the tick that observes the drop
\* emits, on taking the tip, exactly one event, CHAIN_REWIND {from_height: M,
\* to_height: L}, and a following tick that is given the same tip L emits no
\* CHAIN_REWIND.
C36_RewindScenario ==
  (step.op = "latest" /\ step.ok) =>
    /\ step.tip < step.oldHighestTip =>
         events = << [ type |-> "CHAIN_REWIND", from_height |-> step.oldHighestTip,
                       to_height |-> step.tip, severity |-> "CRITICAL" ] >>
    /\ step.tip = step.oldHighestTip => ~ HasEvent(events, "CHAIN_REWIND")

\* C37: when the chain served is the same during two consecutive ticks and
\* no RPC call fails in either, the second tick emits no event from the tip
\* on and leaves the cache, maxObservedHeight and lastProcessedHeight as
\* they were.
C37_TickQuiescence ==
  (audit.settled /\ audit.stable /\ step.ok
     /\ step.op \in {"latest", "forward", "recheck"}) =>
    /\ events = << >>
    /\ blockCache = step.oldCache
    /\ maxObservedHeight = step.oldMaxObserved
    /\ lastProcessedHeight = step.oldLastProcessed

\* C38: with two tick() invocations in flight, lastProcessedHeight does not
\* move backwards in a step that emits no CHAIN_REWIND.
C38_NoStaleWrites ==
  lastProcessedHeight < step.oldLastProcessed =>
    HasEvent(events, "CHAIN_REWIND")

\* C39: under any interleaving of two tick() invocations, every BLOCK_REPLACED
\* event at a height carries as old_hash the hash of the most recent earlier
\* BLOCK_RECEIVED event for that height, and the next BLOCK_RECEIVED event for
\* the height is logged by the same processBlock call with hash = new_hash.
C39_LogSelfConsistent ==
  \A i \in 1..Len(events) :
    events[i].type = "BLOCK_REPLACED" =>
      /\ events[i].height \in DOMAIN step.oldReceived
      /\ events[i].old_hash = step.oldReceived[events[i].height]
      /\ \E j \in (i + 1)..Len(events) :
           /\ events[j].type = "BLOCK_RECEIVED"
           /\ events[j].height = events[i].height
           /\ events[j].hash = events[i].new_hash
           /\ \A m \in (i + 1)..(j - 1) : events[m].type # "BLOCK_RECEIVED"

\* C39 witness: while another invocation is in flight, a processBlock call
\* has logged BLOCK_REPLACED for a height
C39_Witness ==
  /\ HasEvent(events, "BLOCK_REPLACED")
  /\ \E u \in TickIds : u # step.tick /\ pc[u] \in {"forward", "recheck"}

\* every step from here on is a step of a tick whose RPC call succeeded, or
\* a report: the chain does not change and no call fails
Healthy ==
  /\ step.ok
  /\ step.op \in {"start", "probe", "latest", "forward", "recheck", "report"}

\* C40: if from some tick on the tip stays at L, the chain is unchanged and
\* every RPC call succeeds, then lastProcessedHeight and maxObservedHeight
\* eventually equal L and stay there.
C40_CatchUp ==
  <>[]Healthy => <>[](lastProcessedHeight = Tip /\ maxObservedHeight = Tip)

=============================================================================
